---- MODULE Spec2Model ----
(***************************************************************************)
(* Model of q2_fmt/_peds.py: the PEDS (Proportional Engraftment of Donor   *)
(* Strains) pipeline.  A behaviour is one call of sample_peds,             *)
(* feature_peds or peds_bootstrap on a feature table and a sample          *)
(* metadata.  A DataFrame is a sequence of rows (row order is the frame's  *)
(* order), a Series a sequence of <<index, value>> records, a missing      *)
(* value (NaN) is the number NaN.                                          *)
(***************************************************************************)
EXTENDS Integers, Sequences, FiniteSets, TLC

VARIABLES
    table,                      \* input: feature table, rows [id, ab]
    metadata,                   \* input: qiime2.Metadata, rows [id, time, ref, subject]
    columns,                    \* input: what each *_column argument names
    pc,                         \* position of the call
    peds_type,                  \* which entry point runs
    filter_missing_references,  \* argument
    drop_incomplete_subjects,   \* argument
    bootstrap_replicates,       \* argument
    md,                         \* local `metadata` (the DataFrame)
    used_references,            \* local `used_references`
    num_timepoints,             \* local `num_timepoints`
    reference_series,           \* local `reference_series`
    subject_series,             \* local `subject_series`
    groups,                     \* feature_peds: time groups still to do
    peds_df,                    \* local `peds_df`, what a return hands back
    err,                        \* the exception raised, if any
    sample_peds_calls,          \* peds_bootstrap: sample_peds calls made
    fake_donor                  \* peds_bootstrap: the pooled null measures

vars == <<table, metadata, columns, pc, peds_type, filter_missing_references,
          drop_incomplete_subjects, bootstrap_replicates, md, used_references,
          num_timepoints, reference_series, subject_series, groups, peds_df, err, sample_peds_calls, fake_donor>>

(***************************************************************************)
(* Bounds of the model.                                                    *)
(***************************************************************************)
NumFeatures == 2
MaxTime == 2
NumSubjects == 2
MaxAbundance == 2
MaxReplicates == 1

NaN == 0

SampleIds == {1, 2, 3}
Features == 1 .. NumFeatures
Times == 1 .. MaxTime
Subjects == 1 .. NumSubjects

(***************************************************************************)
(* Small helpers on sequences.                                             *)
(***************************************************************************)
Range(s) == {s[i] : i \in DOMAIN s}

Index(df) == {df[i].id : i \in DOMAIN df}

RECURSIVE KeepIds(_, _)
\* boolean-mask selection: the rows of df whose label is in ids, in df's order
KeepIds(df, ids) ==
    IF df = <<>> THEN <<>>
    ELSE (IF Head(df).id \in ids THEN <<Head(df)>> ELSE <<>>)
         \o KeepIds(Tail(df), ids)

\* df.loc[id]: the row labelled id (labels are unique)
Loc(df, id) == df[CHOOSE i \in DOMAIN df : df[i].id = id]

\* Index.get_loc: the position of a label
get_loc(df, id) == CHOOSE i \in DOMAIN df : df[i].id = id

\* an exception: its kind and what its message names
NoError == [kind |-> "none", role |-> "", same_as_index |-> FALSE, ids |-> <<>>,
            subject |-> NaN, timepoints |-> <<>>, names |-> {}]

(***************************************************************************)
(* Column checks (lines 192-222, 244-257, 297-306).  columns[role] says    *)
(* what the role's *_column argument names: a column of the right declared *)
(* type ("ok"), one of the wrong declared type ("badtype"), no column      *)
(* ("absent"), or the index of the metadata ("index").                     *)
(***************************************************************************)
ColumnStates == {"ok", "badtype", "absent", "index"}

\* metadata[column] raises for a name that is no column (the index is none)
ColumnFound(cols, role) == cols[role] \in {"ok", "badtype"}

NotFound(cols, role) ==
    [NoError EXCEPT !.kind = "NotFound", !.role = role,
                    !.same_as_index = (cols[role] = "index")]

\* metadata[time_column].dropna().unique().size
NumTimepoints(df) == Cardinality({df[i].time : i \in DOMAIN df} \ {NaN})

_check_for_time_column(df, cols) ==
    IF ColumnFound(cols, "time")
    THEN [err |-> NoError, num_timepoints |-> NumTimepoints(df)]
    ELSE [err |-> NotFound(cols, "time"), num_timepoints |-> 0]

\* the Series metadata[reference_column]
ReferenceSeries(df) == [i \in DOMAIN df |-> [id |-> df[i].id, ref |-> df[i].ref]]

_check_reference_column(df, cols) ==
    IF ColumnFound(cols, "reference")
    THEN [err |-> NoError, reference_series |-> ReferenceSeries(df)]
    ELSE [err |-> NotFound(cols, "reference"), reference_series |-> <<>>]

\* the Series metadata[subject_column]
SubjectSeries(df) ==
    [i \in DOMAIN df |-> [id |-> df[i].id, subject |-> df[i].subject]]

_check_subject_column(df, cols) ==
    IF ColumnFound(cols, "subject")
    THEN [err |-> NoError, subject_series |-> SubjectSeries(df)]
    ELSE [err |-> NotFound(cols, "subject"), subject_series |-> <<>>]

_check_column_type(cols, role) ==
    IF cols[role] = "ok" THEN NoError
    ELSE [NoError EXCEPT !.kind = "TypeMismatch", !.role = role]

(***************************************************************************)
(* _filter_associated_reference (lines 225-241).                           *)
(***************************************************************************)
\* ref_series[~metadata[time_column].isna()]
Timestamped(ref_series, df) ==
    KeepIds(ref_series, {df[i].id : i \in {j \in DOMAIN df : df[j].time # NaN}})

\* Series.dropna / DataFrame.dropna(subset=[reference_column])
DropNaRef(df) == KeepIds(df, {df[i].id : i \in {j \in DOMAIN df : df[j].ref # NaN}})

\* used_references.index[used_references.isna()]
NanReferences(used) ==
    LET nan == KeepIds(used, {used[i].id : i \in {j \in DOMAIN used : used[j].ref = NaN}})
    IN  [i \in DOMAIN nan |-> nan[i].id]

_filter_associated_reference(ref_series, df, filter) ==
    LET used == Timestamped(ref_series, df)
    IN  IF \E i \in DOMAIN used : used[i].ref = NaN
        THEN IF filter
             THEN [err |-> NoError, metadata |-> DropNaRef(df),
                   used_references |-> DropNaRef(used)]
             ELSE [err |-> [NoError EXCEPT !.kind = "MissingAssociation",
                                           !.ids = NanReferences(used)],
                   metadata |-> df, used_references |-> used]
        ELSE [err |-> NoError, metadata |-> df, used_references |-> used]

(***************************************************************************)
(* _check_duplicate_subject_timepoint (lines 260-269).                     *)
(***************************************************************************)
\* metadata[metadata[subject_column] == subject][time_column].to_list();
\* a missing subject equals nothing, itself included
TimepointList(df, subject) ==
    LET subject_df == KeepIds(df, {df[i].id : i \in
                          {j \in DOMAIN df : subject # NaN /\ df[j].subject = subject}})
    IN  [i \in DOMAIN subject_df |-> subject_df[i].time]

\* variant: only neighbouring entries are compared
IsUniqueAdjacent(list) == \A i \in 1 .. Len(list) - 1 : list[i] # list[i + 1]

\* Series.is_unique is nunique(dropna=False) == len: two missing entries
\* count as one value
is_unique(list) == Cardinality(Range(list)) = Len(list)

RECURSIVE DuplicateFrom(_, _, _)
\* the loop over subj_series from position i: the first subject, in row
\* order, whose timepoints are not unique raises
DuplicateFrom(subj_series, df, i) ==
    IF i > Len(subj_series) THEN NoError
    ELSE LET subject == subj_series[i].subject
             timepoint_list == TimepointList(df, subject)
         IN  IF ~is_unique(timepoint_list)
             THEN [NoError EXCEPT !.kind = "DuplicateTimepoint",
                                  !.subject = subject,
                                  !.timepoints = timepoint_list]
             ELSE DuplicateFrom(subj_series, df, i + 1)

_check_duplicate_subject_timepoint(subj_series, df) ==
    DuplicateFrom(subj_series, df, 1)

(***************************************************************************)
(* _check_subjects_in_all_timepoints (lines 272-294).                      *)
(***************************************************************************)
\* subj_series.value_counts(): rows per subject, missing subjects left out
value_counts(subj_series) ==
    LET seen == {subj_series[i].subject : i \in DOMAIN subj_series} \ {NaN}
    IN  [s \in seen |->
            Cardinality({i \in DOMAIN subj_series : subj_series[i].subject = s})]

\* metadata[metadata[subject_column].isin(subject_to_keep)]
KeepSubjects(df, subject_to_keep) ==
    KeepIds(df, {df[i].id : i \in {j \in DOMAIN df : df[j].subject \in subject_to_keep}})

_check_subjects_in_all_timepoints(subj_series, n, drop, df, used) ==
    LET subject_occurrence_series == value_counts(subj_series)
        subjects == DOMAIN subject_occurrence_series
    IN  IF \E s \in subjects : subject_occurrence_series[s] < n
        THEN IF drop
             THEN LET subject_to_keep ==
                          {s \in subjects : subject_occurrence_series[s] = n}
                      kept == KeepSubjects(df, subject_to_keep)
                  IN  [err |-> NoError, metadata |-> kept,
                       used_references |-> KeepIds(used, Index(kept))]
             ELSE [err |-> [NoError EXCEPT !.kind = "IncompleteSubject",
                               !.names =
                                   {s \in subjects : subject_occurrence_series[s] # n}],
                   metadata |-> df, used_references |-> used]
        ELSE [err |-> NoError, metadata |-> df, used_references |-> used]

(***************************************************************************)
(* PEDS calculation (lines 95-188, 310-327).  A presence row is a function *)
(* from features to BOOLEAN; a measure is the quotient num / den, kept as  *)
(* the pair, or NaN for 0 / 0.                                             *)
(***************************************************************************)
\* table > 0
Binarize(tb) ==
    [i \in DOMAIN tb |->
        [id |-> tb[i].id, present |-> [f \in Features |-> tb[i].ab[f] > 0]]]

\* the values of a reference Series
ReferenceValues(ref_series) ==
    {ref_series[i].ref : i \in DOMAIN ref_series}

\* ref_series[~reference_overlap].unique()
MissingRef(ref_series, tb) == ReferenceValues(ref_series) \ Index(tb)

\* table[table.index.isin(ref_series)]
DonorDf(ref_series, tb) == KeepIds(tb, ReferenceValues(ref_series))

_create_recipient_table(ref_series, time_metadata, table_df) ==
    LET subset_reference_series == KeepIds(ref_series, Index(time_metadata))
    IN  KeepIds(table_df, Index(subset_reference_series))

\* variant: the mask aligned by position, row k of donor_df for row k of
\* recip_df, with no lookup of the assigned donor
MaskingByPosition(time_metadata, donor_df, recip_df) ==
    [k \in DOMAIN recip_df |-> donor_df[((k - 1) % Len(donor_df)) + 1].present]

\* row k of the mask is the donor_df row of the donor that the metadata
\* assigns to the sample of recip_df's row k
_create_masking(time_metadata, donor_df, recip_df) ==
    LET donor_index_masking ==
            [k \in DOMAIN recip_df |->
                get_loc(donor_df, Loc(time_metadata, recip_df[k].id).ref)]
    IN  [k \in DOMAIN recip_df |-> donor_df[donor_index_masking[k]].present]

\* variant: donormask | recip_df
MaskRecipientOr(donor_mask, recip_df) ==
    [k \in DOMAIN recip_df |->
        [f \in Features |-> donor_mask[k][f] \/ recip_df[k].present[f]]]

\* donormask & recip_df, position by position
_mask_recipient(donor_mask, recip_df) ==
    [k \in DOMAIN recip_df |->
        [f \in Features |-> donor_mask[k][f] /\ recip_df[k].present[f]]]

\* np.sum(m, axis=1)[k]
SumRow(m, k) == Cardinality({f \in Features : m[k][f]})

\* np.sum(m, axis=0)[f]
SumColumn(m, f) == Cardinality({k \in DOMAIN m : m[k][f]})

\* num / den with the warnings ignored: 0 / 0 is NaN, never an error
Quotient(num, den) ==
    IF den = 0 THEN [nan |-> TRUE, num |-> 0, den |-> 1]
    ELSE [nan |-> FALSE, num |-> num, den |-> den]

\* peds_df.loc[label] = row: the row labelled label is overwritten where it
\* exists and appended where it does not
LocSet(df, label, row) ==
    LET r == [row EXCEPT !.label = label]
    IN  IF \E i \in DOMAIN df : df[i].label = label
        THEN [i \in DOMAIN df |-> IF df[i].label = label THEN r ELSE df[i]]
        ELSE Append(df, r)

\* peds_df.dropna(): the rows with a missing entry go, the labels stay
dropna(df) ==
    LET keep == {i \in DOMAIN df : ~df[i].measure.nan /\ df[i].group # NaN}
        F[i \in 0 .. Len(df)] ==
            IF i = 0 THEN <<>>
            ELSE IF i \in keep THEN Append(F[i - 1], df[i]) ELSE F[i - 1]
    IN  F[Len(df)]

RECURSIVE SampleRows(_, _, _, _, _, _)
\* the Sample loop from position count of recip_df
SampleRows(df, recip_df, num_sum, donor_sum, time_metadata, count) ==
    IF count > Len(recip_df) THEN df
    ELSE LET sample == recip_df[count].id
             sample_row == Loc(time_metadata, sample)
             row == [label |-> 0, id |-> sample,
                     measure |-> Quotient(num_sum[count], donor_sum[count]),
                     num |-> num_sum[count], den |-> donor_sum[count],
                     donor |-> sample_row.ref, subject |-> sample_row.subject,
                     group |-> sample_row.time]
         IN  SampleRows(LocSet(df, Len(df), row), recip_df, num_sum, donor_sum,
                        time_metadata, count + 1)

RECURSIVE FeatureRowsDropLast(_, _, _, _, _)
\* variant: dropna once, after the loop, and not after every row
FeatureRowsDropLast(df, num_sum, donor_sum, peds_time, count) ==
    IF count > NumFeatures THEN dropna(df)
    ELSE LET row == [label |-> 0, id |-> count,
                     measure |-> Quotient(num_sum[count], donor_sum[count]),
                     num |-> num_sum[count], den |-> donor_sum[count],
                     group |-> peds_time, subject |-> count]
         IN  FeatureRowsDropLast(LocSet(df, Len(df), row), num_sum, donor_sum,
                                 peds_time, count + 1)

RECURSIVE FeatureRows(_, _, _, _, _)
\* the Feature loop from column count of recip_df
FeatureRows(df, num_sum, donor_sum, peds_time, count) ==
    IF count > NumFeatures THEN df
    ELSE LET row == [label |-> 0, id |-> count,
                     measure |-> Quotient(num_sum[count], donor_sum[count]),
                     num |-> num_sum[count], den |-> donor_sum[count],
                     group |-> peds_time, subject |-> count]
         IN  FeatureRows(dropna(LocSet(df, Len(df), row)), num_sum, donor_sum,
                         peds_time, count + 1)

_compute_peds(df, type, peds_time, ref_series, tb, time_metadata) ==
    LET bin == Binarize(tb)
        missing_ref == MissingRef(ref_series, bin)
        donor_df == DonorDf(ref_series, bin)
        recip_df == _create_recipient_table(ref_series, time_metadata, bin)
        donormask == _create_masking(time_metadata, donor_df, recip_df)
        maskedrecip == _mask_recipient(donormask, recip_df)
    IN  IF missing_ref # {}
        THEN [err |-> [NoError EXCEPT !.kind = "ReferentialIntegrity",
                                      !.names = missing_ref],
              peds_df |-> df]
        ELSE IF type = "Sample"
        THEN [err |-> NoError,
              peds_df |-> SampleRows(df, recip_df,
                              [k \in DOMAIN recip_df |-> SumRow(maskedrecip, k)],
                              [k \in DOMAIN recip_df |-> SumRow(donormask, k)],
                              time_metadata, 1)]
        ELSE IF type = "Feature"
        THEN [err |-> NoError,
              peds_df |-> FeatureRows(df,
                              [f \in Features |-> SumColumn(maskedrecip, f)],
                              [f \in Features |-> SumColumn(donormask, f)],
                              peds_time, 1)]
        ELSE [err |-> [NoError EXCEPT !.kind = "InternalContract"], peds_df |-> df]

(***************************************************************************)
(* The inputs of a call.                                                   *)
(***************************************************************************)
Roles == {"time", "reference", "subject"}

AllOk == [role \in Roles |-> "ok"]

\* row orders of a frame over the three samples
Orders == {<<1, 2, 3>>, <<3, 1, 2>>}

MetadataOf(order, time, ref, subject) ==
    [k \in DOMAIN order |->
        [id |-> order[k], time |-> time[order[k]], ref |-> ref[order[k]],
         subject |-> subject[order[k]]]]

TableOf(order, ab) == [k \in DOMAIN order |-> [id |-> order[k], ab |-> ab[order[k]]]]

\* abundances: feature f of sample i is present iff f is in presence[i]
Abundances(presence, a) ==
    [i \in SampleIds |-> [f \in Features |-> IF f \in presence[i] THEN a ELSE 0]]

PlainAbundances == [i \in SampleIds |-> [f \in Features |-> (i + f) % 2]]

\* every metadata over the samples: any time and any subject; sample 3 refers
\* to sample 1, sample 2 to sample 1 or to nothing, sample 1 to sample 2 or
\* to nothing
AnyMetadata ==
    {MetadataOf(<<1, 2, 3>>, time, ref, subject) :
        time \in [SampleIds -> {NaN} \cup Times],
        ref \in {<<NaN, 1, 1>>, <<NaN, NaN, 1>>, <<2, 1, 1>>, <<2, NaN, 1>>},
        subject \in [SampleIds -> {NaN} \cup Subjects]}

\* metadata the checks accept: no subjects, every timestamped sample has a
\* reference
SoundMetadata ==
    {MetadataOf(order, x[1], x[2], <<NaN, NaN, NaN>>) :
        order \in Orders,
        x \in {<< <<NaN, 1, 1>>, <<NaN, 1, 1>> >>,
                << <<NaN, 1, 2>>, <<NaN, 1, 2>> >>,
                << <<1, 1, 2>>, <<2, 1, 1>> >>}}

\* a few metadata for the column checks: sound, a missing reference, a
\* duplicate timepoint, an incomplete subject
ProbeMetadata ==
    {MetadataOf(<<1, 2, 3>>, time, ref, subject) :
        time \in {<<NaN, 1, 1>>, <<NaN, 1, 2>>},
        ref \in {<<NaN, 1, 1>>, <<NaN, 1, NaN>>},
        subject \in {<<NaN, 1, 1>>, <<NaN, 1, 2>>}}

\* sample 1 is a donor row: no time, no reference, no subject
DonorFirst(m) == m[1].time = NaN /\ m[1].ref = NaN /\ m[1].subject = NaN

InitAnyMetadata ==
    /\ metadata \in AnyMetadata
    /\ table = TableOf(<<1, 2, 3>>, PlainAbundances)
    /\ columns = AllOk

InitAnyTable ==
    /\ metadata \in SoundMetadata
    /\ table \in {TableOf(order, Abundances(presence, a)) :
                      order \in Orders,
                      presence \in [SampleIds -> SUBSET Features],
                      a \in {1, MaxAbundance}}
    /\ columns = AllOk

\* the table lacks sample 1 (filter_ids then drops its metadata row)
InitPartialTable ==
    /\ metadata \in {m \in AnyMetadata : DonorFirst(m)}
    /\ table = TableOf(<<2, 3>>, PlainAbundances)
    /\ columns = AllOk

InitAnyColumns ==
    /\ metadata \in ProbeMetadata
    /\ table = TableOf(<<1, 2, 3>>, PlainAbundances)
    /\ columns \in [Roles -> ColumnStates]

Init ==
    /\ InitAnyMetadata \/ InitAnyTable \/ InitPartialTable \/ InitAnyColumns
    /\ pc = "idle"
    /\ peds_type = "none"
    /\ filter_missing_references = FALSE
    /\ drop_incomplete_subjects = FALSE
    /\ bootstrap_replicates = 0
    /\ md = <<>>
    /\ used_references = <<>>
    /\ num_timepoints = 0
    /\ reference_series = <<>>
    /\ subject_series = <<>>
    /\ groups = <<>>
    /\ peds_df = <<>>
    /\ err = NoError
    /\ sample_peds_calls = 0
    /\ fake_donor = <<>>

inputs == <<table, metadata, columns>>
arguments == <<peds_type, filter_missing_references, drop_incomplete_subjects,
               bootstrap_replicates>>
bootstrap == <<sample_peds_calls, fake_donor>>

(***************************************************************************)
(* sample_peds and feature_peds.                                           *)
(***************************************************************************)
\* metadata.filter_ids(ids_to_keep=table.index).to_dataframe()
filter_ids(m, tb) == KeepIds(m, Index(tb))

\* variant: both columns are looked up before either type is checked
ColumnChecksLookupFirst(df, cols) ==
    LET time == _check_for_time_column(df, cols)
        time_type == _check_column_type(cols, "time")
        reference == _check_reference_column(df, cols)
        reference_type == _check_column_type(cols, "reference")
    IN  IF time.err # NoError THEN time.err
        ELSE IF reference.err # NoError THEN reference.err
        ELSE IF time_type # NoError THEN time_type
        ELSE reference_type

\* lines 25-30 and 68-73: the first of the four checks that fails
ColumnChecks(df, cols) ==
    LET time == _check_for_time_column(df, cols)
        time_type == _check_column_type(cols, "time")
        reference == _check_reference_column(df, cols)
        reference_type == _check_column_type(cols, "reference")
    IN  IF time.err # NoError THEN time.err
        ELSE IF time_type # NoError THEN time_type
        ELSE IF reference.err # NoError THEN reference.err
        ELSE reference_type

\* sample_peds lines 20-30, feature_peds lines 63-73
Call(type, filter, drop) ==
    /\ pc = "idle"
    /\ peds_type' = type
    /\ filter_missing_references' = filter
    /\ drop_incomplete_subjects' = drop
    /\ LET df == filter_ids(metadata, table)
           e == ColumnChecks(df, columns)
       IN  /\ md' = df
           /\ err' = e
           /\ IF e = NoError
              THEN /\ num_timepoints' = _check_for_time_column(df, columns).num_timepoints
                   /\ reference_series' =
                          _check_reference_column(df, columns).reference_series
                   /\ pc' = "filter"
              ELSE /\ UNCHANGED <<num_timepoints, reference_series>>
                   /\ pc' = "raised"
    /\ UNCHANGED <<inputs, bootstrap_replicates, used_references, subject_series,
                   groups, peds_df, bootstrap>>

\* sample_peds lines 32-35, feature_peds lines 74-77
FilterAssociatedReference ==
    /\ pc = "filter"
    /\ LET r == _filter_associated_reference(reference_series, md,
                                             filter_missing_references)
       IN  /\ err' = r.err
           /\ md' = r.metadata
           /\ used_references' = r.used_references
           /\ pc' = IF r.err = NoError THEN "subject" ELSE "raised"
    /\ UNCHANGED <<inputs, arguments, num_timepoints, reference_series,
                   subject_series, groups, peds_df, bootstrap>>

\* DataFrame.groupby(time_column): the time values present, ascending
RECURSIVE TimeGroups(_, _)
TimeGroups(df, t) ==
    IF t > MaxTime THEN <<>>
    ELSE (IF \E i \in DOMAIN df : df[i].time = t THEN <<t>> ELSE <<>>)
         \o TimeGroups(df, t + 1)

\* the rows of one time group
TimeMetadata(df, t) ==
    KeepIds(df, {df[i].id : i \in {j \in DOMAIN df : df[j].time = t}})

\* lines 36-40 and 78-80: the first of the subject checks that fails; only
\* sample_peds looks for duplicate timepoints
SubjectChecks(df, cols, type) ==
    LET subject == _check_subject_column(df, cols)
        subject_type == _check_column_type(cols, "subject")
    IN  IF subject.err # NoError THEN subject.err
        ELSE IF subject_type # NoError THEN subject_type
        ELSE IF type = "Sample"
        THEN _check_duplicate_subject_timepoint(subject.subject_series, df)
        ELSE NoError

\* sample_peds lines 36-40, feature_peds lines 78-83
CheckSubject ==
    /\ pc = "subject"
    /\ LET e == SubjectChecks(md, columns, peds_type)
       IN  /\ err' = e
           /\ IF e = NoError
              THEN /\ subject_series' = _check_subject_column(md, columns).subject_series
                   /\ IF peds_type = "Sample"
                      THEN pc' = "timepoints" /\ UNCHANGED groups
                      ELSE pc' = "groups" /\ groups' = TimeGroups(md, 1)
              ELSE /\ pc' = "raised"
                   /\ UNCHANGED <<subject_series, groups>>
    /\ UNCHANGED <<inputs, arguments, md, used_references, num_timepoints,
                   reference_series, peds_df, bootstrap>>

\* sample_peds lines 42-45
CheckSubjectsInAllTimepoints ==
    /\ pc = "timepoints"
    /\ LET r == _check_subjects_in_all_timepoints(subject_series, num_timepoints,
                     drop_incomplete_subjects, md, used_references)
       IN  /\ err' = r.err
           /\ md' = r.metadata
           /\ used_references' = r.used_references
           /\ pc' = IF r.err = NoError THEN "compute" ELSE "raised"
    /\ UNCHANGED <<inputs, arguments, num_timepoints, reference_series,
                   subject_series, groups, peds_df, bootstrap>>

\* sample_peds lines 47-57
ComputeSample ==
    /\ pc = "compute"
    /\ LET r == _compute_peds(<<>>, "Sample", NaN, used_references, table, md)
       IN  /\ err' = r.err
           /\ peds_df' = IF r.err = NoError THEN r.peds_df ELSE peds_df
           /\ pc' = IF r.err = NoError THEN "returned" ELSE "raised"
    /\ UNCHANGED <<inputs, arguments, md, used_references, num_timepoints,
                   reference_series, subject_series, groups, bootstrap>>

\* feature_peds lines 84-91: one turn of the loop over the time groups
ComputeFeatureGroup ==
    /\ pc = "groups"
    /\ groups # <<>>
    /\ LET time == Head(groups)
           r == _compute_peds(peds_df, "Feature", time, used_references, table,
                              TimeMetadata(md, time))
       IN  /\ err' = r.err
           /\ peds_df' = r.peds_df
           /\ groups' = Tail(groups)
           /\ pc' = IF r.err = NoError THEN "groups" ELSE "raised"
    /\ UNCHANGED <<inputs, arguments, md, used_references, num_timepoints,
                   reference_series, subject_series, bootstrap>>

\* feature_peds line 92
ReturnFeature ==
    /\ pc = "groups"
    /\ groups = <<>>
    /\ pc' = "returned"
    /\ UNCHANGED <<inputs, arguments, md, used_references, num_timepoints,
                   reference_series, subject_series, groups, peds_df, err,
                   bootstrap>>

(***************************************************************************)
(* peds_bootstrap (lines 335-365).  Line 341 binds metadata_df to the      *)
(* method metadata.to_dataframe, which is never called; line 343 then      *)
(* reads metadata_df.loc, an attribute a method does not have.             *)
(***************************************************************************)
\* lines 340-341
CallBootstrap(replicates) ==
    /\ pc = "idle"
    /\ peds_type' = "Bootstrap"
    /\ bootstrap_replicates' = replicates
    /\ pc' = "partition"
    /\ UNCHANGED <<inputs, filter_missing_references, drop_incomplete_subjects, md,
                   used_references, num_timepoints, reference_series,
                   subject_series, groups, peds_df, err, bootstrap>>

\* line 343
PartitionBootstrap ==
    /\ pc = "partition"
    /\ err' = [NoError EXCEPT !.kind = "AttributeError"]
    /\ pc' = "raised"
    /\ UNCHANGED <<inputs, arguments, md, used_references, num_timepoints,
                   reference_series, subject_series, groups, peds_df, bootstrap>>

Next ==
    \/ \E filter \in BOOLEAN, drop \in BOOLEAN : Call("Sample", filter, drop)
    \/ \E filter \in BOOLEAN : Call("Feature", filter, FALSE)
    \/ FilterAssociatedReference
    \/ CheckSubject
    \/ CheckSubjectsInAllTimepoints
    \/ ComputeSample
    \/ ComputeFeatureGroup
    \/ ReturnFeature
    \/ \E replicates \in 0 .. MaxReplicates : CallBootstrap(replicates)
    \/ PartitionBootstrap

Spec == Init /\ [][Next]_vars

(***************************************************************************)
(* What the inputs say, read by identifier and not by position.            *)
(***************************************************************************)
\* the features of positive abundance of sample s
PresentFeatures(s) ==
    IF s \in Index(table) THEN {f \in Features : Loc(table, s).ab[f] > 0} ELSE {}

\* the metadata rows of the samples the table has
KnownRows == {i \in DOMAIN metadata : metadata[i].id \in Index(table)}

\* the distinct non-missing time values of the metadata
TimeValues == {metadata[i].time : i \in KnownRows} \ {NaN}

\* the timestamped samples that lack a reference
Unreferenced ==
    {metadata[i].id : i \in {j \in KnownRows :
                                metadata[j].time # NaN /\ metadata[j].ref = NaN}}

IsRatio(measure, num, den) ==
    IF den = 0 THEN measure.nan
    ELSE ~measure.nan /\ measure.num * den = num * measure.den

(***************************************************************************)
(* C1: every row that sample_peds returns for a recipient s with reference *)
(* d has total_donor_features = |features of d|, transfered_donor_features *)
(* = |features of d that s has too| and measure = their quotient: the      *)
(* donor row used is that of s's own donor, whatever the row orders.       *)
(***************************************************************************)
C1_SampleRowUsesAssignedDonor ==
    (peds_type = "Sample" /\ pc = "returned") =>
        \A i \in DOMAIN peds_df :
            LET row == peds_df[i]
                d == Loc(metadata, row.id).ref
            IN  /\ d # NaN
                /\ row.donor = d
                /\ row.den = Cardinality(PresentFeatures(d))
                /\ row.num = Cardinality(PresentFeatures(d) \cap PresentFeatures(row.id))
                /\ IsRatio(row.measure, row.num, row.den)

\* two recipients with different donors of different sizes, the table and
\* the metadata in different row orders
C1_Witness ==
    /\ peds_type = "Sample" /\ pc = "returned"
    /\ table[1].id # metadata[1].id
    /\ \E i, j \in DOMAIN peds_df :
          /\ peds_df[i].donor # peds_df[j].donor
          /\ peds_df[i].den # peds_df[j].den
          /\ peds_df[i].num > 0 /\ peds_df[i].num < peds_df[i].den

(***************************************************************************)
(* C2: in both modes every emitted row has numerator <= denominator, so    *)
(* the measure is in [0, 1]; the measure is NaN exactly when the           *)
(* denominator is 0, and a recipient whose donor has no feature gets a     *)
(* NaN row in the Sample result, not an error.                             *)
(***************************************************************************)
C2_MeasureInUnitIntervalOrNaN ==
    /\ \A i \in DOMAIN peds_df :
          LET row == peds_df[i]
          IN  /\ 0 <= row.num /\ row.num <= row.den
              /\ row.measure.nan <=> row.den = 0
              /\ ~row.measure.nan =>
                    /\ row.measure.den > 0
                    /\ 0 <= row.measure.num /\ row.measure.num <= row.measure.den
    /\ (peds_type = "Sample" /\ pc = "returned") =>
          \A k \in DOMAIN used_references :
              PresentFeatures(used_references[k].ref) = {} =>
                  \E i \in DOMAIN peds_df :
                      /\ peds_df[i].id = used_references[k].id
                      /\ peds_df[i].measure.nan

\* a Sample result with a NaN row and a row strictly between 0 and 1
C2_Witness ==
    /\ peds_type = "Sample" /\ pc = "returned"
    /\ \E i, j \in DOMAIN peds_df :
          /\ peds_df[i].measure.nan
          /\ peds_df[j].num > 0 /\ peds_df[j].num < peds_df[j].den

(***************************************************************************)
(* C3: the Feature result has no NaN row: for every time value it has      *)
(* exactly one row for each feature whose denominator (the recipients of   *)
(* the time group whose donor has the feature) is positive and none for a  *)
(* feature whose denominator is 0, and the rows of the groups already done *)
(* stay as they are, each under its own label; the Sample result keeps one *)
(* row for every recipient, NaN or not.                                    *)
(***************************************************************************)
\* the samples of time group t that have a reference
Recipients(t) ==
    {metadata[i].id : i \in {j \in KnownRows :
                                metadata[j].time = t /\ metadata[j].ref # NaN}}

Donor(s) == Loc(metadata, s).ref

FeatureDen(t, f) ==
    Cardinality({s \in Recipients(t) : f \in PresentFeatures(Donor(s))})

FeatureNum(t, f) ==
    Cardinality({s \in Recipients(t) :
                    f \in PresentFeatures(Donor(s)) \cap PresentFeatures(s)})

RowsFor(f, t) ==
    {i \in DOMAIN peds_df : peds_df[i].id = f /\ peds_df[i].group = t}

C3_FeatureDropsNaNSampleKeeps ==
    /\ (peds_type = "Feature" /\ pc \in {"groups", "returned"}) =>
          /\ \A i \in DOMAIN peds_df : ~peds_df[i].measure.nan
          /\ \A i, j \in DOMAIN peds_df :
                peds_df[i].label = peds_df[j].label => i = j
          /\ \A t \in Times, f \in Features :
                IF t \in TimeValues /\ t \notin Range(groups) /\ FeatureDen(t, f) > 0
                THEN /\ Cardinality(RowsFor(f, t)) = 1
                     /\ \A i \in RowsFor(f, t) :
                           /\ peds_df[i].den = FeatureDen(t, f)
                           /\ peds_df[i].num = FeatureNum(t, f)
                ELSE RowsFor(f, t) = {}
    /\ (peds_type = "Sample" /\ pc = "returned") =>
          /\ Len(peds_df) = Len(used_references)
          /\ \A k \in DOMAIN used_references :
                Cardinality({i \in DOMAIN peds_df :
                                peds_df[i].id = used_references[k].id}) = 1

\* a Feature result over two time groups where a feature of the first group
\* was dropped and a later feature of that group kept
C3_Witness ==
    /\ peds_type = "Feature" /\ pc = "returned"
    /\ \E t \in TimeValues, f \in Features :
          /\ FeatureDen(t, f) = 0
          /\ \E i, j \in DOMAIN peds_df :
                /\ peds_df[i].group = t /\ peds_df[i].id > f
                /\ peds_df[j].group > t

(***************************************************************************)
(* C4: with a timestamped sample that lacks a reference,                   *)
(* filter_missing_references = false raises MissingAssociation naming      *)
(* exactly the timestamped samples without reference, and = true drops     *)
(* exactly those rows, and no other, from the metadata and from the        *)
(* Reference Series.                                                       *)
(***************************************************************************)
C4_FilterDropsExactlyUnreferenced ==
    /\ (pc = "raised" /\ err.kind = "MissingAssociation") =>
          /\ ~filter_missing_references
          /\ Range(err.ids) = Unreferenced
    /\ (pc = "subject" /\ Unreferenced # {}) =>
          /\ filter_missing_references
          /\ Index(md) = {metadata[i].id : i \in KnownRows} \ Unreferenced
          /\ Index(used_references) =
                {metadata[i].id : i \in {j \in KnownRows : metadata[j].time # NaN}}
                    \ Unreferenced

(***************************************************************************)
(* C5: sample_peds, past the column and missing-reference checks, raises   *)
(* DuplicateTimepoint exactly when some subject has two rows with the same *)
(* entry in the time column (two missing entries are the same entry); the  *)
(* error names such a subject and lists the time entries of all its rows.  *)
(***************************************************************************)
HasDuplicate(df, s) ==
    \E i, j \in DOMAIN df :
        /\ i # j
        /\ df[i].subject = s /\ df[j].subject = s
        /\ df[i].time = df[j].time

Occurrences(list, x) == Cardinality({k \in DOMAIN list : list[k] = x})

HasAllTimepoints(df, s) ==
    \A t \in TimeValues : \E i \in DOMAIN df : df[i].subject = s /\ df[i].time = t

C6_IncompleteSubjectRaisedOrDropped ==
    (peds_type = "Sample" /\ pc = "compute") =>
        \A s \in Subjects :
            (\E i \in DOMAIN md : md[i].subject = s) => HasAllTimepoints(md, s)

(***************************************************************************)
(* C7: peds_bootstrap with bootstrap_replicates = 0 computes the true PEDS *)
(* only (one sample_peds call), leaves the null distribution empty and     *)
(* then fails fast by a defined policy.                                    *)
(***************************************************************************)
C7_ZeroReplicatesFailFast ==
    (peds_type = "Bootstrap" /\ bootstrap_replicates = 0
        /\ pc \in {"raised", "returned"}) =>
        /\ pc = "raised"
        /\ sample_peds_calls = 1
        /\ fake_donor = <<>>

(***************************************************************************)
(* C8: sample_peds runs its checks in the order time column, time type,    *)
(* reference column, reference type, missing reference, subject column,    *)
(* subject type, duplicate timepoint, completeness, referential integrity, *)
(* each on the metadata the step before left; the error raised is that of  *)
(* the first check violated, and a call that raises returns no row.        *)
(***************************************************************************)
\* the ten checks in order, each with whether the input violates it
SampleChecks ==
    LET md0 == filter_ids(metadata, table)
        f == _filter_associated_reference(ReferenceSeries(md0), md0,
                                          filter_missing_references)
        c == _check_subjects_in_all_timepoints(SubjectSeries(f.metadata),
                 NumTimepoints(md0), drop_incomplete_subjects, f.metadata,
                 f.used_references)
    IN  << [kind |-> "NotFound", role |-> "time",
            violated |-> columns["time"] \in {"absent", "index"}],
           [kind |-> "TypeMismatch", role |-> "time",
            violated |-> columns["time"] # "ok"],
           [kind |-> "NotFound", role |-> "reference",
            violated |-> columns["reference"] \in {"absent", "index"}],
           [kind |-> "TypeMismatch", role |-> "reference",
            violated |-> columns["reference"] # "ok"],
           [kind |-> "MissingAssociation", role |-> "",
            violated |-> ~filter_missing_references /\ Unreferenced # {}],
           [kind |-> "NotFound", role |-> "subject",
            violated |-> columns["subject"] \in {"absent", "index"}],
           [kind |-> "TypeMismatch", role |-> "subject",
            violated |-> columns["subject"] # "ok"],
           [kind |-> "DuplicateTimepoint", role |-> "",
            violated |-> \E s \in Subjects : HasDuplicate(f.metadata, s)],
           [kind |-> "IncompleteSubject", role |-> "",
            violated |-> /\ ~drop_incomplete_subjects
                         /\ \E s \in Subjects :
                               LET n == Cardinality({i \in DOMAIN f.metadata :
                                                        f.metadata[i].subject = s})
                               IN  n > 0 /\ n < NumTimepoints(md0)],
           [kind |-> "ReferentialIntegrity", role |-> "",
            violated |-> \E k \in DOMAIN c.used_references :
                            c.used_references[k].ref \notin Index(table)] >>

\* the positions of the checks violated
Violated(checks) == {k \in DOMAIN checks : checks[k].violated}

C8_FirstViolatedCheckRaises ==
    (peds_type = "Sample" /\ pc \in {"raised", "returned"}) =>
        LET checks == SampleChecks
            violated == Violated(checks)
        IN  /\ pc = "raised" =>
                  /\ \E first \in violated :
                        /\ \A l \in violated : first <= l
                        /\ err.kind = checks[first].kind
                        /\ err.role = checks[first].role
                  /\ peds_df = <<>>
            /\ pc = "returned" => violated = {}

\* an input that violates three checks or more, a column check among them
C8_Witness ==
    /\ peds_type = "Sample" /\ pc = "raised"
    /\ err.kind = "TypeMismatch" /\ err.role = "time"
    /\ LET checks == SampleChecks
       IN  Cardinality(Violated(checks)) >= 3 /\ checks[3].violated

(***************************************************************************)
(* C9: peds_bootstrap with R >= 1 replicates makes R + 1 sample_peds       *)
(* calls, pools the measures of calls 1..R as the null, runs the rank-sum  *)
(* test once and returns its statistic and p-value.                        *)
(***************************************************************************)
C9_BootstrapRunsAllReplicates ==
    (peds_type = "Bootstrap" /\ bootstrap_replicates >= 1
        /\ pc \in {"raised", "returned"}) =>
        /\ pc = "returned"
        /\ sample_peds_calls = bootstrap_replicates + 1

(***************************************************************************)
(* C10: every subject in a sample_peds result has exactly one result row   *)
(* at each of the N distinct non-missing time values of the metadata.      *)
(***************************************************************************)
C10_ResultSubjectsComplete ==
    (peds_type = "Sample" /\ pc = "returned") =>
        \A s \in Subjects :
            (\E i \in DOMAIN peds_df : peds_df[i].subject = s) =>
                \A t \in TimeValues :
                    Cardinality({i \in DOMAIN peds_df :
                        peds_df[i].subject = s /\ peds_df[i].group = t}) = 1
====
